---------------------------- MODULE Spec2Model ----------------------------
(***************************************************************************)
(* Tab state synchronisation and attention detection of the iTerm tabs     *)
(* Stream Deck plugin (src/unnamed/part_001, the iterm-tab action).        *)
(*                                                                         *)
(* Strings are sequences of one-character strings, so that trim, split,    *)
(* the tab-name regular expression, toLowerCase and includes are computed  *)
(* as the code computes them.  null (notificationProject) is the empty     *)
(* sequence: the code only tests the project for truthiness.               *)
(***************************************************************************)
EXTENDS Integers, Sequences, FiniteSets, TLC

(***************************************************************************)
(* Program constants                                                       *)
(***************************************************************************)
NOTIFICATION_WINDOW_POLLS == 4

\* pollCount - lastActive <= 3 in applyTimingHeuristic
RecentPolls == 3

\* for (let i = 1; i <= 6; i++) in onWillAppear
MaxAutoIndex == 6

(***************************************************************************)
(* Bounds of the model                                                     *)
(***************************************************************************)
\* the poll cycles a behaviour of Spec may start
MaxPollCount == 6

\* the poll cycles a behaviour of SpecProject may start
ProjectPollCount == 2

\* the poll cycles a behaviour of SpecButtons may start
ButtonPollCount == 2

\* the poll cycles a behaviour of SpecClassify may start
ClassifyPollCount == 2

\* the poll cycles a behaviour of SpecStream may start
StreamPollCount == 3

\* the `log stream` children that may exist at once, killed ones whose exit
\* event is still to come included
\* the poll cycles a behaviour of SpecJoin starts
JoinPollCount == 2

\* the poll cycles a behaviour of SpecTiming starts: a signal can be
\* consumed four polls after a tab was last seen processing
TimingPollCount == 5

MaxChildren == 2

(***************************************************************************)
(* Strings                                                                 *)
(***************************************************************************)
TAB == "\t"
NL == "\n"
Whitespace == {" ", TAB, NL}
Delim == <<"|", "|">>

UpperCase == <<"A","B","C","D","E","F","G","H","I","J","K","L","M",
               "N","O","P","Q","R","S","T","U","V","W","X","Y","Z">>
LowerCase == <<"a","b","c","d","e","f","g","h","i","j","k","l","m",
               "n","o","p","q","r","s","t","u","v","w","x","y","z">>

\* String.prototype.toLowerCase, one character
LowerChar(c) ==
    IF \E k \in 1..26 : UpperCase[k] = c
    THEN LowerCase[CHOOSE k \in 1..26 : UpperCase[k] = c]
    ELSE c

toLowerCase(s) == [k \in 1..Len(s) |-> LowerChar(s[k])]

\* String.prototype.includes
includes(s, sub) ==
    \E k \in 0..(Len(s) - Len(sub)) : SubSeq(s, k + 1, k + Len(sub)) = sub

\* String.prototype.startsWith at offset k (0-based)
StartsAt(s, sub, k) ==
    /\ k + Len(sub) <= Len(s)
    /\ SubSeq(s, k + 1, k + Len(sub)) = sub

\* String.prototype.trim
RECURSIVE TrimLeft(_)
TrimLeft(s) ==
    IF s # <<>> /\ Head(s) \in Whitespace THEN TrimLeft(Tail(s)) ELSE s

RECURSIVE TrimRight(_)
TrimRight(s) ==
    IF s # <<>> /\ s[Len(s)] \in Whitespace
    THEN TrimRight(SubSeq(s, 1, Len(s) - 1))
    ELSE s

trim(s) == TrimRight(TrimLeft(s))

\* String.prototype.split with a non-empty separator: "" splits to [""].
\* cur is the piece read so far.
RECURSIVE SplitFrom(_, _, _)
SplitFrom(s, d, cur) ==
    IF s = <<>> THEN <<cur>>
    ELSE IF StartsAt(s, d, 0)
         THEN <<cur>> \o SplitFrom(SubSeq(s, Len(d) + 1, Len(s)), d, <<>>)
         ELSE SplitFrom(Tail(s), d, Append(cur, Head(s)))

split(s, d) == SplitFrom(s, d, <<>>)

\* Array.prototype.join
RECURSIVE join(_, _)
join(list, d) ==
    IF list = <<>> THEN <<>>
    ELSE IF Len(list) = 1 THEN list[1]
    ELSE list[1] \o d \o join(Tail(list), d)

\* Array.prototype.filter((n) => n.length > 0)
RECURSIVE filterNonEmpty(_)
filterNonEmpty(list) ==
    IF list = <<>> THEN <<>>
    ELSE IF Head(list) # <<>>
         THEN <<Head(list)>> \o filterNonEmpty(Tail(list))
         ELSE filterNonEmpty(Tail(list))

Digits == <<"0","1","2","3","4","5","6","7","8","9">>
IsDigit(c) == \E k \in 1..10 : Digits[k] = c
DigitValue(c) == (CHOOSE k \in 1..10 : Digits[k] = c) - 1

\* the decimal text AppleScript produces for a small integer
IntText(n) == IF n < 10 THEN <<Digits[n + 1]>>
              ELSE <<Digits[(n \div 10) + 1], Digits[(n % 10) + 1]>>

\* NaN is never === to a tab index; it is kept apart from every index
NaN == -1000

\* parseInt(s, 10): leading whitespace skipped, then the leading digits
RECURSIVE LeadingDigits(_, _)
LeadingDigits(s, acc) ==
    IF s # <<>> /\ IsDigit(Head(s))
    THEN LeadingDigits(Tail(s), 10 * acc + DigitValue(Head(s)))
    ELSE acc

parseInt(s) ==
    LET t == TrimLeft(s)
    IN  IF t # <<>> /\ IsDigit(Head(t)) THEN LeadingDigits(t, 0) ELSE NaN

(***************************************************************************)
(* Tab name parsing                                                        *)
(***************************************************************************)
\* the tail  \s*\(([^)]+)\)\s*$  of the tab-name pattern
SuffixMatches(t) ==
    LET u == trim(t)
    IN  /\ Len(u) >= 3
        /\ u[1] = "("
        /\ u[Len(u)] = ")"
        /\ \A k \in 2..(Len(u) - 1) : u[k] # ")"

\* fullName.match(/^(.+?)\s*\(([^)]+)\)\s*$/): the first group is lazy, so
\* it is the shortest non-empty prefix after which the tail matches
parseTabName(fullName) ==
    LET Cuts == {k \in 1..Len(fullName) :
                    /\ \A j \in 1..k : fullName[j] # NL
                    /\ SuffixMatches(SubSeq(fullName, k + 1, Len(fullName)))}
    IN  IF Cuts # {}
        THEN LET k == CHOOSE k \in Cuts : \A j \in Cuts : k <= j
                 u == trim(SubSeq(fullName, k + 1, Len(fullName)))
             IN  [displayName |-> trim(SubSeq(fullName, 1, k)),
                  process |-> trim(SubSeq(u, 2, Len(u) - 1))]
        ELSE [displayName |-> fullName, process |-> <<>>]

matchesProject(tabFullName, project) ==
    includes(toLowerCase(parseTabName(tabFullName).displayName),
             toLowerCase(project))

(***************************************************************************)
(* Snapshot fetcher                                                        *)
(***************************************************************************)
BoolText(b) == IF b THEN <<"1">> ELSE <<"0">>

\* what osascript prints for APPLESCRIPT_SRC.  term is the terminal's state:
\* window says whether a window exists, tabs[i] is [name, tty, prompt,
\* processing] of the current session of tab i, current the selected tab.
APPLESCRIPT_SRC(term) ==
    IF ~term.window
    THEN <<TAB, "0", TAB, TAB, TAB, TAB, NL>>
    ELSE LET n == Len(term.tabs)
             tabNames == [i \in 1..n |-> term.tabs[i].name]
             tabPrompts == [i \in 1..n |-> BoolText(term.tabs[i].prompt)]
             tabProcessing == [i \in 1..n |-> BoolText(term.tabs[i].processing)]
             tabTtys == [i \in 1..n |-> term.tabs[i].tty]
         IN  join(tabNames, Delim) \o <<TAB>> \o IntText(term.current)
                \o <<TAB>> \o join(tabPrompts, Delim)
                \o <<TAB>> \o join(tabProcessing, Delim)
                \o <<TAB>> \o join(tabTtys, Delim) \o <<NL>>

\* sections[k] || dflt  (k is 0-based)
Section(sections, k, dflt) ==
    IF k + 1 <= Len(sections) /\ sections[k + 1] # <<>>
    THEN sections[k + 1]
    ELSE dflt

\* the value getTabInfo resolves to when the query threw
FailedTabInfo ==
    [names |-> <<>>, activeIndex |-> 0, prompts |-> <<>>,
     processing |-> <<>>, frontmost |-> FALSE, ttys |-> <<>>]

\* getTabInfo on the text osascript printed
ParseTabInfo(stdout) ==
    LET sections == split(trim(stdout), <<TAB>>)
        promptTexts == split(Section(sections, 2, <<>>), Delim)
        processingTexts == split(Section(sections, 3, <<>>), Delim)
    IN  [names |-> filterNonEmpty(split(Section(sections, 0, <<>>), Delim)),
         activeIndex |-> parseInt(Section(sections, 1, <<"0">>)),
         prompts |-> [i \in 1..Len(promptTexts) |-> promptTexts[i] = <<"1">>],
         processing |-> [i \in 1..Len(processingTexts) |->
                            processingTexts[i] = <<"1">>],
         frontmost |-> FALSE,
         ttys |-> filterNonEmpty(split(Section(sections, 4, <<>>), Delim))]

\* getTabInfo: query is [ok |-> FALSE] when exec rejects, else
\* [ok |-> TRUE, term |-> the terminal's state]
getTabInfo(query) ==
    IF query.ok THEN ParseTabInfo(APPLESCRIPT_SRC(query.term)) ELSE FailedTabInfo


(***************************************************************************)
(* Attention engine                                                        *)
(*                                                                         *)
(* The module-level attention variables of the code are gathered in a      *)
(* record st, so that updateAttention is an operator from the state before *)
(* the call to the state after it.  A Map is a function whose domain is    *)
(* the set of keys set so far.                                             *)
(***************************************************************************)
\* Map.get(k) ?? dflt
MapGet(m, k, dflt) == IF k \in DOMAIN m THEN m[k] ELSE dflt

\* Map.set(k, v)
MapSet(m, k, v) == [x \in (DOMAIN m) \cup {k} |-> IF x = k THEN v ELSE m[x]]

EmptyMap == [x \in {} |-> FALSE]

\* array[i] ?? false  (i is 0-based; an index past the end reads undefined)
BoolAt(array, i) == IF i + 1 <= Len(array) THEN array[i + 1] ELSE FALSE

\* the active tab counted as visible whatever the frontmost application
VisibleTabIgnoresFrontmost(tabInfo) == tabInfo.activeIndex

\* const visibleTab = frontmost ? activeIndex : -1
VisibleTab(tabInfo) == IF tabInfo.frontmost THEN tabInfo.activeIndex ELSE -1

\* one iteration of the loop of applyTimingHeuristic with no limit on how
\* long ago the tab was processing
TimingStepNoRecency(st, tabInfo, visibleTab, i) ==
    LET tabIdx == i + 1
        atPrompt == BoolAt(tabInfo.prompts, i)
        isProc == BoolAt(tabInfo.processing, i)
    IN  IF tabIdx = visibleTab THEN st
        ELSE IF atPrompt \/ isProc THEN st
        ELSE IF tabIdx \in DOMAIN st.lastProcessingPoll
             THEN [st EXCEPT !.attentionTabs = @ \cup {tabIdx}]
             ELSE st

\* one iteration of the loop of applyTimingHeuristic
TimingStep(st, tabInfo, visibleTab, i) ==
    LET tabIdx == i + 1
        atPrompt == BoolAt(tabInfo.prompts, i)
        isProc == BoolAt(tabInfo.processing, i)
    IN  IF tabIdx = visibleTab THEN st
        ELSE IF atPrompt \/ isProc THEN st
        ELSE IF /\ tabIdx \in DOMAIN st.lastProcessingPoll
                /\ st.pollCount - st.lastProcessingPoll[tabIdx] <= RecentPolls
             THEN [st EXCEPT !.attentionTabs = @ \cup {tabIdx}]
             ELSE st

RECURSIVE TimingLoop(_, _, _, _)
TimingLoop(st, tabInfo, visibleTab, i) ==
    IF i < Len(tabInfo.names)
    THEN TimingLoop(TimingStep(st, tabInfo, visibleTab, i), tabInfo, visibleTab, i + 1)
    ELSE st

applyTimingHeuristic(st, tabInfo, visibleTab) ==
    TimingLoop([st EXCEPT !.notificationWindowEnd =
                              st.pollCount + NOTIFICATION_WINDOW_POLLS],
               tabInfo, visibleTab, 0)

\* the project-match loop of updateAttention; the result's matched field is
\* the local variable matched
RECURSIVE ProjectLoop(_, _, _, _, _)
ProjectLoop(st, matched, tabInfo, visibleTab, i) ==
    IF i < Len(tabInfo.names)
    THEN IF i + 1 = visibleTab
         THEN ProjectLoop(st, matched, tabInfo, visibleTab, i + 1)
         ELSE IF matchesProject(tabInfo.names[i + 1], st.notificationProject)
              THEN ProjectLoop([st EXCEPT !.attentionTabs = @ \cup {i + 1}],
                               TRUE, tabInfo, visibleTab, i + 1)
              ELSE ProjectLoop(st, matched, tabInfo, visibleTab, i + 1)
    ELSE [st |-> st, matched |-> matched]

\* the timing heuristic run after the project loop even when a tab matched
ConsumeNotificationAlwaysTiming(st, tabInfo, visibleTab) ==
    IF st.notificationPending
    THEN LET s1 == [st EXCEPT !.notificationPending = FALSE]
         IN  IF s1.notificationProject # <<>>
             THEN LET r == ProjectLoop(s1, FALSE, tabInfo, visibleTab, 0)
                      s2 == applyTimingHeuristic(r.st, tabInfo, visibleTab)
                  IN  [s2 EXCEPT !.notificationProject = <<>>]
             ELSE applyTimingHeuristic(s1, tabInfo, visibleTab)
    ELSE st

\* the block without its `notificationPending = false`
ConsumeNotificationKeepsPending(st, tabInfo, visibleTab) ==
    IF st.notificationPending
    THEN IF st.notificationProject # <<>>
         THEN LET r == ProjectLoop(st, FALSE, tabInfo, visibleTab, 0)
                  s2 == IF r.matched THEN r.st
                        ELSE applyTimingHeuristic(r.st, tabInfo, visibleTab)
              IN  [s2 EXCEPT !.notificationProject = <<>>]
         ELSE applyTimingHeuristic(st, tabInfo, visibleTab)
    ELSE st

\* if (notificationPending) { ... } of updateAttention
ConsumeNotification(st, tabInfo, visibleTab) ==
    IF st.notificationPending
    THEN LET s1 == [st EXCEPT !.notificationPending = FALSE]
         IN  IF s1.notificationProject # <<>>
             THEN LET r == ProjectLoop(s1, FALSE, tabInfo, visibleTab, 0)
                      s2 == IF r.matched THEN r.st
                            ELSE applyTimingHeuristic(r.st, tabInfo, visibleTab)
                  IN  [s2 EXCEPT !.notificationProject = <<>>]
             ELSE applyTimingHeuristic(s1, tabInfo, visibleTab)
    ELSE st

\* one iteration of the main loop without the rule of the prompt transition
EdgeStepProcessingOnly(st, tabInfo, visibleTab, inNotificationWindow, i) ==
    LET tabIdx == i + 1
        atPrompt == BoolAt(tabInfo.prompts, i)
        wasAtPrompt == MapGet(st.prevPromptState, tabIdx, FALSE)
        isProcessing == BoolAt(tabInfo.processing, i)
        wasProcessing == MapGet(st.prevProcessingState, tabIdx, FALSE)
        flagged ==
            IF tabIdx = visibleTab
            THEN st.attentionTabs \ {tabIdx}
            ELSE IF st.pollCount > 0
                 THEN st.attentionTabs
                        \cup (IF inNotificationWindow /\ wasProcessing /\ ~isProcessing
                              THEN {tabIdx} ELSE {})
                 ELSE st.attentionTabs
    IN  [st EXCEPT
            !.attentionTabs = flagged,
            !.lastProcessingPoll =
                IF isProcessing THEN MapSet(@, tabIdx, st.pollCount) ELSE @,
            !.prevPromptState = MapSet(@, tabIdx, atPrompt),
            !.prevProcessingState = MapSet(@, tabIdx, isProcessing)]

\* one iteration of the main loop of updateAttention
EdgeStep(st, tabInfo, visibleTab, inNotificationWindow, i) ==
    LET tabIdx == i + 1
        atPrompt == BoolAt(tabInfo.prompts, i)
        wasAtPrompt == MapGet(st.prevPromptState, tabIdx, FALSE)
        isProcessing == BoolAt(tabInfo.processing, i)
        wasProcessing == MapGet(st.prevProcessingState, tabIdx, FALSE)
        flagged ==
            IF tabIdx = visibleTab
            THEN st.attentionTabs \ {tabIdx}
            ELSE IF st.pollCount > 0
                 THEN st.attentionTabs
                        \cup (IF inNotificationWindow /\ atPrompt /\ ~wasAtPrompt
                              THEN {tabIdx} ELSE {})
                        \cup (IF inNotificationWindow /\ wasProcessing /\ ~isProcessing
                              THEN {tabIdx} ELSE {})
                 ELSE st.attentionTabs
    IN  [st EXCEPT
            !.attentionTabs = flagged,
            !.lastProcessingPoll =
                IF isProcessing THEN MapSet(@, tabIdx, st.pollCount) ELSE @,
            !.prevPromptState = MapSet(@, tabIdx, atPrompt),
            !.prevProcessingState = MapSet(@, tabIdx, isProcessing)]

RECURSIVE EdgeLoop(_, _, _, _, _)
EdgeLoop(st, tabInfo, visibleTab, inNotificationWindow, i) ==
    IF i < Len(tabInfo.names)
    THEN EdgeLoop(EdgeStep(st, tabInfo, visibleTab, inNotificationWindow, i),
                  tabInfo, visibleTab, inNotificationWindow, i + 1)
    ELSE st

\* updateAttention that also drops the flags of the tabs the snapshot does
\* not list
updateAttentionPrunes(st, tabInfo) ==
    LET visibleTab == VisibleTab(tabInfo)
        s1 == ConsumeNotification(st, tabInfo, visibleTab)
        inNotificationWindow == s1.pollCount <= s1.notificationWindowEnd
        s2 == EdgeLoop(s1, tabInfo, visibleTab, inNotificationWindow, 0)
    IN  [s2 EXCEPT !.pollCount = @ + 1,
                   !.attentionTabs = @ \cap (1..Len(tabInfo.names))]

\* the edge rules applied in every poll, window or not
updateAttentionUngated(st, tabInfo) ==
    LET visibleTab == VisibleTab(tabInfo)
        s1 == ConsumeNotification(st, tabInfo, visibleTab)
        s2 == EdgeLoop(s1, tabInfo, visibleTab, TRUE, 0)
    IN  [s2 EXCEPT !.pollCount = @ + 1]

\* the window closed one poll early: pollCount < notificationWindowEnd
updateAttentionStrictWindow(st, tabInfo) ==
    LET visibleTab == VisibleTab(tabInfo)
        s1 == ConsumeNotification(st, tabInfo, visibleTab)
        inNotificationWindow == s1.pollCount < s1.notificationWindowEnd
        s2 == EdgeLoop(s1, tabInfo, visibleTab, inNotificationWindow, 0)
    IN  [s2 EXCEPT !.pollCount = @ + 1]

\* pollCount++ moved into the loop over the tabs
updateAttentionCountsPerTab(st, tabInfo) ==
    LET visibleTab == VisibleTab(tabInfo)
        s1 == ConsumeNotification(st, tabInfo, visibleTab)
        inNotificationWindow == s1.pollCount <= s1.notificationWindowEnd
        s2 == EdgeLoop(s1, tabInfo, visibleTab, inNotificationWindow, 0)
    IN  [s2 EXCEPT !.pollCount = @ + Len(tabInfo.names)]

\* the previous prompt and processing values never stored
updateAttentionKeepsPrevious(st, tabInfo) ==
    LET visibleTab == VisibleTab(tabInfo)
        s1 == ConsumeNotification(st, tabInfo, visibleTab)
        inNotificationWindow == s1.pollCount <= s1.notificationWindowEnd
        s2 == EdgeLoop(s1, tabInfo, visibleTab, inNotificationWindow, 0)
    IN  [s2 EXCEPT !.pollCount = @ + 1,
                   !.prevPromptState = st.prevPromptState,
                   !.prevProcessingState = st.prevProcessingState]

\* updateAttention, up to the restart of the log stream, which the poll
\* cycle's action does
updateAttention(st, tabInfo) ==
    LET visibleTab == VisibleTab(tabInfo)
        s1 == ConsumeNotification(st, tabInfo, visibleTab)
        inNotificationWindow == s1.pollCount <= s1.notificationWindowEnd
        s2 == EdgeLoop(s1, tabInfo, visibleTab, inNotificationWindow, 0)
    IN  [s2 EXCEPT !.pollCount = @ + 1]


(***************************************************************************)
(* Program classifier                                                      *)
(***************************************************************************)
\* process.toLowerCase().replace(/^-/, "")
StripDash(p) == IF p # <<>> /\ Head(p) = "-" THEN Tail(p) ELSE p

detectProgramFromName(process) ==
    LET p == StripDash(toLowerCase(process))
    IN  IF includes(p, <<"c","o","d","e","x">>) THEN "codex"
        ELSE IF includes(p, <<"c","l","a","u","d","e">>) THEN "claude"
        ELSE IF includes(p, <<"p","y","t","h","o","n">>) THEN "python"
        ELSE IF \/ includes(p, <<"n","o","d","e">>)
                \/ includes(p, <<"n","p","m">>)
                \/ includes(p, <<"n","p","x">>) THEN "node"
        ELSE IF includes(p, <<"s","s","h">>) THEN "ssh"
        ELSE IF \/ includes(p, <<"v","i","m">>)
                \/ includes(p, <<"n","v","i","m">>) THEN "vim"
        ELSE IF \/ includes(p, <<"z","s","h">>)
                \/ includes(p, <<"b","a","s","h">>)
                \/ includes(p, <<"f","i","s","h">>) THEN "shell"
        ELSE "other"

\* the longest run of whitespace (ws = TRUE) or of non-whitespace at the
\* head of s
RECURSIVE RunLength(_, _)
RunLength(s, ws) ==
    IF s # <<>> /\ ((Head(s) \in Whitespace) = ws)
    THEN 1 + RunLength(Tail(s), ws)
    ELSE 0

Drop(s, k) == SubSeq(s, k + 1, Len(s))

\* line.match(/^\s*(\S+)\s+(\S+)\s+(.+)$/): [ok, tty, stat, cmd].  When only
\* whitespace follows the second field, the greedy \s+ gives back its last
\* character to (.+).
MatchPsLine(line) ==
    LET a == Drop(line, RunLength(line, TRUE))
        n1 == RunLength(a, FALSE)
        b == Drop(a, n1)
        w1 == RunLength(b, TRUE)
        c == Drop(b, w1)
        n2 == RunLength(c, FALSE)
        d == Drop(c, n2)
        w2 == RunLength(d, TRUE)
        e == Drop(d, w2)
        none == [ok |-> FALSE, tty |-> <<>>, stat |-> <<>>, cmd |-> <<>>]
    IN  IF n1 = 0 \/ w1 = 0 \/ n2 = 0 \/ w2 = 0 THEN none
        ELSE IF e # <<>>
             THEN [ok |-> TRUE, tty |-> SubSeq(a, 1, n1),
                   stat |-> SubSeq(c, 1, n2), cmd |-> e]
             ELSE IF w2 >= 2
                  THEN [ok |-> TRUE, tty |-> SubSeq(a, 1, n1),
                        stat |-> SubSeq(c, 1, n2), cmd |-> <<d[w2]>>]
                  ELSE none

\* the loop that groups foreground command lines by tty
RECURSIVE GroupForeground(_, _)
GroupForeground(lines, fgByTty) ==
    IF lines = <<>> THEN fgByTty
    ELSE LET m == MatchPsLine(Head(lines))
         IN  IF ~m.ok THEN GroupForeground(Tail(lines), fgByTty)
             ELSE IF ~includes(m.stat, <<"+">>)
                  THEN GroupForeground(Tail(lines), fgByTty)
                  ELSE GroupForeground(Tail(lines),
                          MapSet(fgByTty, m.tty,
                                 Append(MapGet(fgByTty, m.tty, <<>>), m.cmd)))

\* ttys[i].replace("/dev/", ""): the first occurrence only
StripDev(tty) ==
    LET dev == <<"/","d","e","v","/">>
    IN  IF includes(tty, dev)
        THEN LET k == CHOOSE k \in 0..(Len(tty) - 5) :
                         /\ StartsAt(tty, dev, k)
                         /\ \A j \in 0..(k - 1) : ~StartsAt(tty, dev, j)
             IN  SubSeq(tty, 1, k) \o Drop(tty, k + 5)
        ELSE tty

\* the rules in the order of detectProgramFromName: codex before claude
ClassifyCombinedCodexFirst(combined) ==
    IF includes(combined, <<"c","o","d","e","x">>) THEN "codex"
    ELSE IF \/ includes(combined, <<"c","l","a","u","d","e">>)
            \/ includes(combined, <<".","l","o","c","a","l","/","s","h","a","r",
                                    "e","/","c","l","a","u","d","e","/">>)
    THEN "claude"
    ELSE IF includes(combined, <<"s","s","h"," ">>) THEN "ssh"
    ELSE IF \/ includes(combined, <<"v","i","m">>)
            \/ includes(combined, <<"n","v","i","m">>) THEN "vim"
    ELSE ""

\* the label of the first rule the combined command lines satisfy, or
\* "" when none does (result.set is not called)
ClassifyCombined(combined) ==
    IF \/ includes(combined, <<"c","l","a","u","d","e">>)
       \/ includes(combined, <<".","l","o","c","a","l","/","s","h","a","r","e",
                               "/","c","l","a","u","d","e","/">>)
    THEN "claude"
    ELSE IF includes(combined, <<"c","o","d","e","x">>) THEN "codex"
    ELSE IF includes(combined, <<"s","s","h"," ">>) THEN "ssh"
    ELSE IF \/ includes(combined, <<"v","i","m">>)
            \/ includes(combined, <<"n","v","i","m">>) THEN "vim"
    ELSE ""

RECURSIVE ClassifyLoop(_, _, _, _)
ClassifyLoop(ttys, fgByTty, result, i) ==
    IF i < Len(ttys)
    THEN LET tty == StripDev(ttys[i + 1])
         IN  IF tty \notin DOMAIN fgByTty
             THEN ClassifyLoop(ttys, fgByTty, result, i + 1)
             ELSE LET label == ClassifyCombined(
                                   toLowerCase(join(fgByTty[tty], <<" ">>)))
                  IN  ClassifyLoop(ttys, fgByTty,
                                   IF label # "" THEN MapSet(result, i + 1, label)
                                   ELSE result,
                                   i + 1)
    ELSE result

\* Map<number, string>: tab index -> program label
matchTtyPrograms(ttys, psOutput) ==
    IF Len(ttys) = 0 \/ psOutput = <<>> THEN EmptyMap
    ELSE ClassifyLoop(ttys, GroupForeground(split(psOutput, <<NL>>), EmptyMap),
                      EmptyMap, 0)


(***************************************************************************)
(* Inputs: what the external collaborators can answer                      *)
(***************************************************************************)
NameDeploy == <<"D","e","p","l","o","y"," ","(","z","s","h",")">>
NameNotes == <<"n","o","t","e","s"," ","(","v","i","m",")">>

\* readNotificationEvent()?.project ?? null
ProjectDeploy == <<"d","e","p","l","o","y">>

TtyOf(i) == <<"/","d","e","v","/","t">> \o IntText(i)

\* a window whose tab i has the session state sessions[i]
Window(sessions, current) ==
    [window |-> TRUE,
     tabs |-> [i \in 1..Len(sessions) |->
                  [name |-> sessions[i].name, tty |-> TtyOf(i),
                   prompt |-> sessions[i].prompt,
                   processing |-> sessions[i].processing]],
     current |-> current]

NoWindow == [window |-> FALSE, tabs |-> <<>>, current |-> 0]

\* Spec: a shell in tab 1 (at its prompt, running a command, or idle in a
\* program) and an agent in tab 2 (working or idle), either tab selected
ShellSessions ==
    {[name |-> NameDeploy, prompt |-> TRUE, processing |-> FALSE],
     [name |-> NameDeploy, prompt |-> FALSE, processing |-> TRUE],
     [name |-> NameDeploy, prompt |-> FALSE, processing |-> FALSE]}
AgentSessions ==
    {[name |-> NameNotes, prompt |-> FALSE, processing |-> TRUE],
     [name |-> NameNotes, prompt |-> FALSE, processing |-> FALSE]}
Terminals ==
    {Window(<<a, b>>, c) : a \in ShellSessions, b \in AgentSessions, c \in {1, 2}}

\* SpecProject: two tabs whose names vary (the second session's name may be
\* empty), the first working or idle, the second idle, and the case of no
\* window
FirstSessions ==
    [name : {NameDeploy, NameNotes}, prompt : {FALSE}, processing : BOOLEAN]
SecondSessions ==
    [name : {NameDeploy, <<>>}, prompt : {FALSE}, processing : {FALSE}]
ProjectTerminals ==
    {NoWindow}
        \cup {Window(<<a, b>>, c) :
                 a \in FirstSessions, b \in SecondSessions, c \in {1, 2}}

\* the results getTabInfo can resolve to
TabInfos == {getTabInfo([ok |-> TRUE, term |-> t]) : t \in Terminals}
ProjectTabInfos ==
    {getTabInfo([ok |-> FALSE])}
        \cup {getTabInfo([ok |-> TRUE, term |-> t]) : t \in ProjectTerminals}

\* `ps -e -o tty=,stat=,command=`: vim in the foreground of t1, a shell in
\* the background of t2
PsTable ==
    <<"t","1"," ","S","+"," ","v","i","m",NL,
      "t","2"," ","S","s"," ","-","z","s","h",NL>>

\* SpecButtons: one or two idle tabs; a failing query
ButtonTerminals ==
    {Window(<<a>>, 1) :
        a \in [name : {NameDeploy}, prompt : {FALSE}, processing : {FALSE}]}
      \cup {Window(<<a, b>>, 2) :
                a \in [name : {NameDeploy}, prompt : {FALSE}, processing : {FALSE}],
                b \in [name : {NameNotes}, prompt : {FALSE}, processing : {FALSE}]}
ButtonTabInfos ==
    {getTabInfo([ok |-> FALSE])}
        \cup {getTabInfo([ok |-> TRUE, term |-> t]) : t \in ButtonTerminals}

\* SpecStream: two tabs, the first working or idle, either tab selected
StreamTerminals ==
    {Window(<<a, b>>, c) :
        a \in [name : {NameDeploy}, prompt : {FALSE}, processing : BOOLEAN],
        b \in [name : {NameNotes}, prompt : {FALSE}, processing : {FALSE}],
        c \in {1, 2}}
StreamTabInfos == {getTabInfo([ok |-> TRUE, term |-> t]) : t \in StreamTerminals}

\* SpecClassify: one tab, its title naming a shell, vim or an unknown program
NameTop == <<"x"," ","(","t","o","p",")">>
ClassifyTerminals ==
    {Window(<<a>>, 1) :
        a \in [name : {NameDeploy, NameNotes, NameTop}, prompt : {FALSE},
               processing : {FALSE}]}
ClassifyTabInfos ==
    {getTabInfo([ok |-> TRUE, term |-> t]) : t \in ClassifyTerminals}

\* SpecTiming: tab 1 working, idle in a program or at its prompt, tab 2 an
\* idle shell whose name the notification's project matches, either tab
\* selected
TimingTerminals ==
    {Window(<<a, b>>, c) :
        a \in {[name |-> NameNotes, prompt |-> FALSE, processing |-> TRUE],
                [name |-> NameNotes, prompt |-> FALSE, processing |-> FALSE],
                [name |-> NameNotes, prompt |-> TRUE, processing |-> FALSE]},
        b \in {[name |-> NameDeploy, prompt |-> FALSE, processing |-> FALSE]},
        c \in {1, 2}}
TimingTabInfos == {getTabInfo([ok |-> TRUE, term |-> t]) : t \in TimingTerminals}

\* what getRawProcessData resolves to: PsTable, or "" when exec rejects
PsOutputs == {PsTable, <<>>}

\* an agent run by an interpreter, in the foreground of t1
PsAgent ==
    <<"t","1"," ","S","+"," ","p","y","t","h","o","n","3"," ","/","x","/",
      "C","l","a","u","d","e","/","c","l","i",NL>>
\* codex and claude both in the foreground of t1
PsBoth ==
    <<"t","1"," ","S","+"," ","c","o","d","e","x",NL,"t","1"," ","S","+",
      " ","c","l","a","u","d","e",NL>>
\* codex given an ssh command line
PsCodex ==
    <<"t","1"," ","S","+"," ","c","o","d","e","x"," ","s","s","h"," ","h",
      NL>>
\* ssh and vim both in the foreground of t1
PsSsh ==
    <<"t","1"," ","S","+"," ","s","s","h"," ","h",NL,"t","1"," ","S","+",
      " ","v","i","m",NL>>
\* a program no rule knows
PsTop ==
    <<"t","1"," ","S","+"," ","t","o","p",NL>>
\* vim in the background of t1
PsBackground ==
    <<"t","1"," ","S"," "," ","v","i","m",NL>>
PsTables ==
    {PsTable, PsAgent, PsBoth, PsCodex, PsSsh, PsTop, PsBackground, <<>>}

Buttons == {"b1"}

\* every button of the profile; Spec and SpecProject show the first only
Deck == {"b1", "b2"}

SubQueries == {"getTabInfo", "getRawProcessData", "checkFrontmost"}

(***************************************************************************)
(* State                                                                   *)
(***************************************************************************)
VARIABLES
    visibleActions,        \* Map action id -> tabIndex
    pollTimer,             \* TRUE when the interval timer is armed
    attentionTabs,
    pollCount,
    prevPromptState,
    lastProcessingPoll,
    prevProcessingState,
    logStreamProcess,      \* 0 for null, else the child's pid
    logStreamChildren,     \* Map pid -> "running", or "killed" until the
                           \* child's exit event is delivered
    spawnedBy,             \* the caller of the startLogStream call that
                           \* spawned last, "" before the first spawn
    notificationPending,
    notificationProject,
    notificationWindowEnd,
    pollInProgress,
    cycles,                \* the pollTabs calls suspended at Promise.all:
                           \* for each, the sub-queries not yet settled
    appearing,             \* onWillAppear calls suspended at setSettings:
                           \* Map action id -> tabIndex
    settings,              \* the tabIndex stored for each button, 0 if none
    tabInfo,               \* the snapshot of the last resumed cycle
    lastPsOutput,          \* the ps output of the last resumed cycle
    published,             \* Map action id -> what setImage last showed
    lastArrival,           \* the project of the last matching log line
    pollsLeft              \* the poll cycles the behaviour may still start

attentionVars ==
    <<attentionTabs, pollCount, prevPromptState, lastProcessingPoll,
      prevProcessingState, notificationWindowEnd>>
signalVars == <<notificationPending, notificationProject>>
pollVars == <<pollInProgress, cycles, pollsLeft>>
buttonVars == <<visibleActions, pollTimer, appearing, settings>>
streamVars == <<logStreamProcess, logStreamChildren, spawnedBy>>
vars ==
    <<visibleActions, pollTimer, attentionTabs, pollCount, prevPromptState,
      lastProcessingPoll, prevProcessingState, logStreamProcess,
      logStreamChildren, spawnedBy, lastPsOutput,
      notificationPending, notificationProject, notificationWindowEnd,
      pollInProgress, cycles, appearing, settings, tabInfo, published,
      lastArrival, pollsLeft>>

\* the attention state as the record updateAttention works on
AttentionState ==
    [attentionTabs |-> attentionTabs,
     pollCount |-> pollCount,
     prevPromptState |-> prevPromptState,
     lastProcessingPoll |-> lastProcessingPoll,
     prevProcessingState |-> prevProcessingState,
     notificationPending |-> notificationPending,
     notificationProject |-> notificationProject,
     notificationWindowEnd |-> notificationWindowEnd]

\* the module-level declarations of the code, with no settings stored
Constructed ==
    /\ visibleActions = EmptyMap
    /\ pollTimer = FALSE
    /\ attentionTabs = {}
    /\ pollCount = 0
    /\ prevPromptState = EmptyMap
    /\ lastProcessingPoll = EmptyMap
    /\ prevProcessingState = EmptyMap
    /\ logStreamProcess = 0
    /\ logStreamChildren = EmptyMap
    /\ spawnedBy = ""
    /\ lastPsOutput = <<>>
    /\ notificationPending = FALSE
    /\ notificationProject = <<>>
    /\ notificationWindowEnd = -1
    /\ pollInProgress = FALSE
    /\ cycles = <<>>
    /\ appearing = EmptyMap
    /\ settings = [id \in Deck |-> 0]
    /\ tabInfo = FailedTabInfo
    /\ published = EmptyMap
    /\ lastArrival = <<>>

Init == Constructed /\ pollsLeft = MaxPollCount

InitProject == Constructed /\ pollsLeft = ProjectPollCount

(***************************************************************************)
(* Poll scheduler                                                          *)
(***************************************************************************)
\* pollTabs() without its pollInProgress guard
pollTabsUnguarded ==
    /\ pollsLeft > 0
    /\ pollsLeft' = pollsLeft - 1
    /\ pollInProgress' = TRUE
    /\ cycles' = Append(cycles, SubQueries)

\* the part of pollTabs() that runs in the caller's turn, up to the await
pollTabs ==
    IF pollInProgress
    THEN UNCHANGED pollVars
    ELSE /\ pollsLeft > 0
         /\ pollsLeft' = pollsLeft - 1
         /\ pollInProgress' = TRUE
         /\ cycles' = Append(cycles, SubQueries)

\* startLogStream(): nothing when a child is held, else spawn one
startLogStream(caller) ==
    IF logStreamProcess # 0
    THEN UNCHANGED streamVars
    ELSE /\ Cardinality(DOMAIN logStreamChildren) < MaxChildren
         /\ LET child == CHOOSE k \in 1..MaxChildren :
                             k \notin DOMAIN logStreamChildren
            IN  /\ logStreamProcess' = child
                /\ logStreamChildren' = MapSet(logStreamChildren, child, "running")
                /\ spawnedBy' = caller

\* one of the three promises given to Promise.all settles
SubQuerySettles(c, q) ==
    /\ c \in 1..Len(cycles)
    /\ q \in cycles[c]
    /\ cycles' = [cycles EXCEPT ![c] = @ \ {q}]
    /\ UNCHANGED <<attentionVars, signalVars, buttonVars, pollInProgress,
                   pollsLeft, streamVars, tabInfo, lastPsOutput, published,
                   lastArrival>>

\* the three promises settle with no other handler running in between
QueriesSettle(c) ==
    /\ c \in 1..Len(cycles)
    /\ cycles[c] # {}
    /\ cycles' = [cycles EXCEPT ![c] = {}]
    /\ UNCHANGED <<attentionVars, signalVars, buttonVars, pollInProgress,
                   pollsLeft, streamVars, tabInfo, lastPsOutput, published,
                   lastArrival>>

\* isActive computed from the zero-based position of the tab
RenderedZeroBasedActive(info, flagged, ttyPrograms, idx) ==
    IF idx <= Len(info.names)
    THEN LET parsed == parseTabName(info.names[idx])
         IN  [kind |-> "tab",
              tabName |-> parsed.displayName,
              program |-> MapGet(ttyPrograms, idx,
                                 detectProgramFromName(parsed.process)),
              isActive |-> (idx - 1 = info.activeIndex),
              hasAttention |-> (idx \in flagged)]
    ELSE [kind |-> "empty"]

\* the bound tested with < for <=: the last tab is drawn as an empty button
RenderedShortByOne(info, flagged, ttyPrograms, idx) ==
    IF idx < Len(info.names)
    THEN LET parsed == parseTabName(info.names[idx])
         IN  [kind |-> "tab",
              tabName |-> parsed.displayName,
              program |-> MapGet(ttyPrograms, idx,
                                 detectProgramFromName(parsed.process)),
              isActive |-> (idx = info.activeIndex),
              hasAttention |-> (idx \in flagged)]
    ELSE [kind |-> "empty"]

\* the record renderButton is given, or the empty button
Rendered(info, flagged, ttyPrograms, idx) ==
    IF idx <= Len(info.names)
    THEN LET parsed == parseTabName(info.names[idx])
         IN  [kind |-> "tab",
              tabName |-> parsed.displayName,
              program |-> MapGet(ttyPrograms, idx,
                                 detectProgramFromName(parsed.process)),
              isActive |-> (idx = info.activeIndex),
              hasAttention |-> (idx \in flagged)]
    ELSE [kind |-> "empty"]

\* pollTabs awaiting Promise.race: it resumes when the first of the three
\* promises has settled
PollResumesRaces(c, fetched, psOutput, frontmost) ==
    /\ c \in 1..Len(cycles)
    /\ cycles[c] # SubQueries
    /\ LET info == [fetched EXCEPT !.frontmost = frontmost]
           st == updateAttention(AttentionState, info)
           ttyPrograms == matchTtyPrograms(info.ttys, psOutput)
       IN  /\ tabInfo' = info
           /\ attentionTabs' = st.attentionTabs
           /\ pollCount' = st.pollCount
           /\ prevPromptState' = st.prevPromptState
           /\ lastProcessingPoll' = st.lastProcessingPoll
           /\ prevProcessingState' = st.prevProcessingState
           /\ notificationPending' = st.notificationPending
           /\ notificationProject' = st.notificationProject
           /\ notificationWindowEnd' = st.notificationWindowEnd
           /\ lastPsOutput' = psOutput
           /\ IF logStreamProcess = 0 /\ DOMAIN visibleActions # {}
              THEN startLogStream("updateAttention")
              ELSE UNCHANGED streamVars
           /\ published' =
                  [id \in (DOMAIN published) \cup (DOMAIN visibleActions) |->
                      IF id \in DOMAIN visibleActions
                      THEN Rendered(info, st.attentionTabs, ttyPrograms,
                                    visibleActions[id])
                      ELSE published[id]]
    /\ pollInProgress' = FALSE
    /\ cycles' = SubSeq(cycles, 1, c - 1) \o SubSeq(cycles, c + 1, Len(cycles))
    /\ UNCHANGED <<buttonVars, lastArrival, pollsLeft>>

\* pollTabs after the await with an updateAttention that leaves a dead
\* log stream alone
PollResumesUnsupervised(c, fetched, psOutput, frontmost) ==
    /\ c \in 1..Len(cycles)
    /\ cycles[c] = {}
    /\ LET info == [fetched EXCEPT !.frontmost = frontmost]
           st == updateAttention(AttentionState, info)
           ttyPrograms == matchTtyPrograms(info.ttys, psOutput)
       IN  /\ tabInfo' = info
           /\ attentionTabs' = st.attentionTabs
           /\ pollCount' = st.pollCount
           /\ prevPromptState' = st.prevPromptState
           /\ lastProcessingPoll' = st.lastProcessingPoll
           /\ prevProcessingState' = st.prevProcessingState
           /\ notificationPending' = st.notificationPending
           /\ notificationProject' = st.notificationProject
           /\ notificationWindowEnd' = st.notificationWindowEnd
           /\ lastPsOutput' = psOutput
           /\ UNCHANGED streamVars
           /\ published' =
                  [id \in (DOMAIN published) \cup (DOMAIN visibleActions) |->
                      IF id \in DOMAIN visibleActions
                      THEN Rendered(info, st.attentionTabs, ttyPrograms,
                                    visibleActions[id])
                      ELSE published[id]]
    /\ pollInProgress' = FALSE
    /\ cycles' = SubSeq(cycles, 1, c - 1) \o SubSeq(cycles, c + 1, Len(cycles))
    /\ UNCHANGED <<buttonVars, lastArrival, pollsLeft>>

\* getTabInfo and getRawProcessData without their catch: a failed query
\* rejects Promise.all, and only the finally block runs
PollResumesOrAborts(c, fetched, psOutput, frontmost) ==
    /\ c \in 1..Len(cycles)
    /\ cycles[c] = {}
    /\ IF fetched = FailedTabInfo \/ psOutput = <<>>
       THEN UNCHANGED <<attentionVars, signalVars, streamVars, tabInfo,
                        lastPsOutput, published>>
       ELSE LET info == [fetched EXCEPT !.frontmost = frontmost]
                st == updateAttention(AttentionState, info)
                ttyPrograms == matchTtyPrograms(info.ttys, psOutput)
            IN  /\ tabInfo' = info
                /\ attentionTabs' = st.attentionTabs
                /\ pollCount' = st.pollCount
                /\ prevPromptState' = st.prevPromptState
                /\ lastProcessingPoll' = st.lastProcessingPoll
                /\ prevProcessingState' = st.prevProcessingState
                /\ notificationPending' = st.notificationPending
                /\ notificationProject' = st.notificationProject
                /\ notificationWindowEnd' = st.notificationWindowEnd
                /\ lastPsOutput' = psOutput
                /\ IF logStreamProcess = 0 /\ DOMAIN visibleActions # {}
                   THEN startLogStream("updateAttention")
                   ELSE UNCHANGED streamVars
                /\ published' =
                       [id \in (DOMAIN published) \cup (DOMAIN visibleActions) |->
                           IF id \in DOMAIN visibleActions
                           THEN Rendered(info, st.attentionTabs, ttyPrograms,
                                         visibleActions[id])
                           ELSE published[id]]
    /\ pollInProgress' = FALSE
    /\ cycles' = SubSeq(cycles, 1, c - 1) \o SubSeq(cycles, c + 1, Len(cycles))
    /\ UNCHANGED <<buttonVars, lastArrival, pollsLeft>>

\* pollTabs after the await: the three results are bound, updateAttention
\* runs, every tracked button is redrawn and the guard is released
PollResumes(c, fetched, psOutput, frontmost) ==
    /\ c \in 1..Len(cycles)
    /\ cycles[c] = {}
    /\ LET info == [fetched EXCEPT !.frontmost = frontmost]
           st == updateAttention(AttentionState, info)
           ttyPrograms == matchTtyPrograms(info.ttys, psOutput)
       IN  /\ tabInfo' = info
           /\ attentionTabs' = st.attentionTabs
           /\ pollCount' = st.pollCount
           /\ prevPromptState' = st.prevPromptState
           /\ lastProcessingPoll' = st.lastProcessingPoll
           /\ prevProcessingState' = st.prevProcessingState
           /\ notificationPending' = st.notificationPending
           /\ notificationProject' = st.notificationProject
           /\ notificationWindowEnd' = st.notificationWindowEnd
           /\ lastPsOutput' = psOutput
           /\ IF logStreamProcess = 0 /\ DOMAIN visibleActions # {}
              THEN startLogStream("updateAttention")
              ELSE UNCHANGED streamVars
           /\ published' =
                  [id \in (DOMAIN published) \cup (DOMAIN visibleActions) |->
                      IF id \in DOMAIN visibleActions
                      THEN Rendered(info, st.attentionTabs, ttyPrograms,
                                    visibleActions[id])
                      ELSE published[id]]
    /\ pollInProgress' = FALSE
    /\ cycles' = SubSeq(cycles, 1, c - 1) \o SubSeq(cycles, c + 1, Len(cycles))
    /\ UNCHANGED <<buttonVars, lastArrival, pollsLeft>>

\* setInterval(pollTabs, POLL_INTERVAL_MS) fires
TimerTick ==
    /\ pollTimer
    /\ pollTabs
    /\ UNCHANGED <<attentionVars, signalVars, buttonVars, streamVars,
                   tabInfo, lastPsOutput, published, lastArrival>>

\* a matching line that raises the signal and leaves the poll to the timer
LogLineWaitsForTick(project) ==
    /\ \E child \in DOMAIN logStreamChildren :
          logStreamChildren[child] = "running"
    /\ lastArrival' = project
    /\ IF ~notificationPending
       THEN /\ notificationProject' = project
            /\ notificationPending' = TRUE
            /\ UNCHANGED pollVars
       ELSE UNCHANGED <<signalVars, pollVars>>
    /\ UNCHANGED <<attentionVars, buttonVars, streamVars, tabInfo,
                   lastPsOutput, published>>

(***************************************************************************)
(* Event monitor                                                           *)
(***************************************************************************)
\* the handler without its `if (!notificationPending)`
LogLineOverwrites(project) ==
    /\ \E child \in DOMAIN logStreamChildren :
          logStreamChildren[child] = "running"
    /\ lastArrival' = project
    /\ notificationProject' = project
    /\ notificationPending' = TRUE
    /\ pollTabs
    /\ UNCHANGED <<attentionVars, buttonVars, streamVars, tabInfo,
                   lastPsOutput, published>>

\* a line that matches NOTIFICATION_MATCHERS arrives on the child's stdout;
\* project is what readNotificationEvent would give
LogLine(project) ==
    /\ \E child \in DOMAIN logStreamChildren :
          logStreamChildren[child] = "running"
    /\ lastArrival' = project
    /\ IF ~notificationPending
       THEN /\ notificationProject' = project
            /\ notificationPending' = TRUE
            /\ pollTabs
       ELSE UNCHANGED <<signalVars, pollVars>>
    /\ UNCHANGED <<attentionVars, buttonVars, streamVars, tabInfo,
                   lastPsOutput, published>>

(***************************************************************************)
(* The action's handlers                                                   *)
(***************************************************************************)
\* the lowest index in 1..6 no tracked button uses, else 1
AutoIndex ==
    LET usedIndices == {visibleActions[id] : id \in DOMAIN visibleActions}
        free == {i \in 1..MaxAutoIndex : i \notin usedIndices}
    IN  IF free # {} THEN CHOOSE i \in free : \A j \in free : i <= j ELSE 1

\* visibleActions.set(id, ...) and a startPolling() without its
\* `if (pollTimer) return`
RegisterRearms(id, tabIndex) ==
    /\ visibleActions' = MapSet(visibleActions, id, tabIndex)
    /\ startLogStream("startPolling")
    /\ pollTabs
    /\ pollTimer' = TRUE

\* visibleActions.set(id, ...); startPolling()
Register(id, tabIndex) ==
    /\ visibleActions' = MapSet(visibleActions, id, tabIndex)
    /\ IF pollTimer
       THEN UNCHANGED <<pollTimer, streamVars, pollVars>>
       ELSE /\ startLogStream("startPolling")
            /\ pollTabs
            /\ pollTimer' = TRUE

\* onWillAppear up to its await, or to its end when a tabIndex is stored
WillAppear(id) ==
    /\ id \notin DOMAIN visibleActions
    /\ id \notin DOMAIN appearing
    /\ IF settings[id] = 0
       THEN /\ appearing' = MapSet(appearing, id, AutoIndex)
            /\ UNCHANGED <<visibleActions, pollTimer, streamVars, pollVars>>
       ELSE /\ Register(id, settings[id])
            /\ UNCHANGED appearing
    /\ UNCHANGED <<attentionVars, signalVars, settings, tabInfo,
                   lastPsOutput, published, lastArrival>>

\* onWillAppear after `await ev.action.setSettings({ tabIndex })`
WillAppearResumes(id) ==
    /\ id \in DOMAIN appearing
    /\ settings' = [settings EXCEPT ![id] = appearing[id]]
    /\ appearing' = [x \in (DOMAIN appearing) \ {id} |-> appearing[x]]
    /\ Register(id, appearing[id])
    /\ UNCHANGED <<attentionVars, signalVars, tabInfo, lastPsOutput, published,
                   lastArrival>>

\* onKeyDown up to `await switchToTab`; nothing of the state is touched
\* after it
KeyDown(id) ==
    /\ id \in DOMAIN visibleActions
    /\ attentionTabs' = attentionTabs \ {visibleActions[id]}
    /\ pollTabs
    /\ UNCHANGED <<pollCount, prevPromptState, lastProcessingPoll,
                   prevProcessingState, notificationWindowEnd, signalVars,
                   buttonVars, streamVars, tabInfo, lastPsOutput, published,
                   lastArrival>>

\* stopLogStream(): the child is killed; its exit event comes later
stopLogStream ==
    IF logStreamProcess # 0
    THEN /\ logStreamChildren' =
                MapSet(logStreamChildren, logStreamProcess, "killed")
         /\ logStreamProcess' = 0
         /\ UNCHANGED spawnedBy
    ELSE UNCHANGED streamVars

\* stopPolling()
stopPolling ==
    /\ pollTimer' = FALSE
    /\ stopLogStream

\* onWillDisappear that also forgets the flagged tabs when the last button
\* goes
WillDisappearForgets(id) ==
    /\ id \in DOMAIN visibleActions
    /\ visibleActions' =
          [x \in (DOMAIN visibleActions) \ {id} |-> visibleActions[x]]
    /\ IF DOMAIN visibleActions' = {}
       THEN stopPolling /\ attentionTabs' = {}
       ELSE UNCHANGED <<pollTimer, streamVars, attentionTabs>>
    /\ UNCHANGED <<pollCount, prevPromptState, lastProcessingPoll,
                   prevProcessingState, notificationWindowEnd, signalVars,
                   pollVars, appearing, settings, tabInfo, lastPsOutput,
                   published, lastArrival>>

\* onWillDisappear of a tracked button
WillDisappear(id) ==
    /\ id \in DOMAIN visibleActions
    /\ visibleActions' =
          [x \in (DOMAIN visibleActions) \ {id} |-> visibleActions[x]]
    /\ IF DOMAIN visibleActions' = {}
       THEN stopPolling
       ELSE UNCHANGED <<pollTimer, streamVars>>
    /\ UNCHANGED <<attentionVars, signalVars, pollVars, appearing, settings,
                   tabInfo, lastPsOutput, published, lastArrival>>

\* the "exit" or "error" event of a `log stream` child, killed or not
LogStreamExits(child) ==
    /\ child \in DOMAIN logStreamChildren
    /\ logStreamChildren' =
          [x \in (DOMAIN logStreamChildren) \ {child} |-> logStreamChildren[x]]
    /\ logStreamProcess' = 0
    /\ UNCHANGED <<attentionVars, signalVars, pollVars, buttonVars, spawnedBy,
                   tabInfo, lastPsOutput, published, lastArrival>>

(***************************************************************************)
(* Specifications                                                          *)
(***************************************************************************)
\* two named tabs, notifications without a project, the window of polls
Next ==
    \/ \E id \in Buttons : WillAppear(id)
    \/ \E id \in Buttons : WillAppearResumes(id)
    \/ \E id \in Buttons : KeyDown(id)
    \/ TimerTick
    \/ LogLine(<<>>)
    \/ \E c \in 1..Len(cycles) : QueriesSettle(c)
    \/ \E c \in 1..Len(cycles), fetched \in TabInfos, frontmost \in BOOLEAN :
          PollResumes(c, fetched, PsTable, frontmost)

Spec == Init /\ [][Next]_vars

\* tabs that change their names, notifications with and without a project,
\* a failing terminal query
NextProject ==
    \/ \E id \in Buttons : WillAppear(id)
    \/ \E id \in Buttons : WillAppearResumes(id)
    \/ \E id \in Buttons : KeyDown(id)
    \/ TimerTick
    \/ \E project \in {<<>>, ProjectDeploy} : LogLine(project)
    \/ \E c \in 1..Len(cycles) : QueriesSettle(c)
    \/ \E c \in 1..Len(cycles), fetched \in ProjectTabInfos,
          frontmost \in BOOLEAN :
          PollResumes(c, fetched, PsTable, frontmost)

SpecProject == InitProject /\ [][NextProject]_vars

\* SpecProject with every sub-query completing and every continuation of an
\* await run by the event loop; no timer tick, log line or key press is
\* required to happen
SpecWakeUp ==
    /\ InitProject
    /\ [][NextProject]_vars
    /\ WF_vars(\E c \in 1..Len(cycles) : QueriesSettle(c))
    /\ WF_vars(\E c \in 1..Len(cycles), fetched \in ProjectTabInfos,
                  frontmost \in BOOLEAN :
                  PollResumes(c, fetched, PsTable, frontmost))

\* two buttons that appear and disappear, sub-queries that may fail; the
\* exit events of the killed `log stream` children are not delivered, so at
\* most MaxChildren children are spawned
InitButtons == Constructed /\ pollsLeft = ButtonPollCount

NextButtons ==
    \/ \E id \in Deck : WillAppear(id)
    \/ \E id \in Deck : WillAppearResumes(id)
    \/ \E id \in Deck : WillDisappear(id)
    \/ \E id \in Deck : KeyDown(id)
    \/ TimerTick
    \/ \E c \in 1..Len(cycles) : QueriesSettle(c)
    \/ \E c \in 1..Len(cycles), fetched \in ButtonTabInfos,
          ps \in PsOutputs, frontmost \in BOOLEAN :
          PollResumes(c, fetched, ps, frontmost)

SpecButtons == InitButtons /\ [][NextButtons]_vars

\* one button on the only tab, whose title and foreground processes vary
InitClassify == Constructed /\ pollsLeft = ClassifyPollCount

NextClassify ==
    \/ \E id \in Buttons : WillAppear(id)
    \/ \E id \in Buttons : WillAppearResumes(id)
    \/ TimerTick
    \/ \E c \in 1..Len(cycles) : QueriesSettle(c)
    \/ \E c \in 1..Len(cycles), fetched \in ClassifyTabInfos,
          ps \in PsTables, frontmost \in BOOLEAN :
          PollResumes(c, fetched, ps, frontmost)

SpecClassify == InitClassify /\ [][NextClassify]_vars

\* one button that appears and disappears, notifications without a project,
\* `log stream` children that exit by themselves or after a kill
InitStream == Constructed /\ pollsLeft = StreamPollCount

NextStream ==
    \/ \E id \in Buttons : WillAppear(id)
    \/ \E id \in Buttons : WillAppearResumes(id)
    \/ \E id \in Buttons : WillDisappear(id)
    \/ \E id \in Buttons : KeyDown(id)
    \/ TimerTick
    \/ LogLine(<<>>)
    \/ \E child \in 1..MaxChildren : LogStreamExits(child)
    \/ \E c \in 1..Len(cycles) : QueriesSettle(c)
    \/ \E c \in 1..Len(cycles), fetched \in StreamTabInfos,
          frontmost \in BOOLEAN :
          PollResumes(c, fetched, PsTable, frontmost)

SpecStream == InitStream /\ [][NextStream]_vars

\* one button, timer ticks, the three promises of a cycle settling one by
\* one in any order, sub-queries that may fail
InitJoin == Constructed /\ pollsLeft = JoinPollCount

NextJoin ==
    \/ \E id \in Buttons : WillAppear(id)
    \/ \E id \in Buttons : WillAppearResumes(id)
    \/ TimerTick
    \/ \E c \in 1..Len(cycles), q \in SubQueries : SubQuerySettles(c, q)
    \/ \E c \in 1..Len(cycles), fetched \in ButtonTabInfos,
          ps \in PsOutputs, frontmost \in BOOLEAN :
          PollResumes(c, fetched, ps, frontmost)

SpecJoin == InitJoin /\ [][NextJoin]_vars

\* one button, notifications with and without a project, a first tab that
\* works, idles and comes to its prompt over several polls
InitTiming == Constructed /\ pollsLeft = TimingPollCount

NextTiming ==
    \/ \E id \in Buttons : WillAppear(id)
    \/ \E id \in Buttons : WillAppearResumes(id)
    \/ TimerTick
    \/ \E project \in {<<>>, ProjectDeploy} : LogLine(project)
    \/ \E c \in 1..Len(cycles) : QueriesSettle(c)
    \/ \E c \in 1..Len(cycles), fetched \in TimingTabInfos,
          frontmost \in BOOLEAN :
          PollResumes(c, fetched, PsTable, frontmost)

SpecTiming == InitTiming /\ [][NextTiming]_vars

(***************************************************************************)
(* Properties                                                              *)
(***************************************************************************)
\* a step in which a suspended pollTabs call resumes: updateAttention runs
Resumed == Len(cycles') < Len(cycles)

\* tab t of the snapshot info is in the snapshot and not the visible tab
Hidden(info, t) == t \in 1..Len(info.names) /\ t # VisibleTab(info)

\* tab t stopped processing, or came to its prompt, between the values the
\* previous poll recorded and the snapshot info
FallingProcessing(info, t) ==
    MapGet(prevProcessingState, t, FALSE) /\ ~BoolAt(info.processing, t - 1)
RisingPrompt(info, t) ==
    ~MapGet(prevPromptState, t, FALSE) /\ BoolAt(info.prompts, t - 1)

\* C1: after every updateAttention call the visible tab (the snapshot's
\* activeIndex when frontmost is true) is not flagged, also when activeIndex
\* is larger than the number of tab names
C1_VisibleTabNeverFlagged ==
    tabInfo.frontmost => tabInfo.activeIndex \notin attentionTabs

\* C2: a tab is added to the flagged set only by a poll that consumes a
\* pending signal or whose pollCount is at most notificationWindowEnd; as
\* long as no signal was consumed (no window was ever opened) nothing is
\* flagged, whatever the tabs do
C2_NoFlagFromSilence ==
    /\ [](notificationWindowEnd = -1 => attentionTabs = {})
    /\ [][\/ attentionTabs' \subseteq attentionTabs
          \/ notificationPending
          \/ pollCount <= notificationWindowEnd]_vars

\* tab 2 was seen processing and has stopped, hidden, with no signal so far
C2_Witness ==
    /\ notificationWindowEnd = -1
    /\ ~notificationPending
    /\ pollCount >= 2
    /\ 2 \in DOMAIN lastProcessingPoll
    /\ lastProcessingPoll[2] = pollCount - 2
    /\ VisibleTab(tabInfo) # 2

\* C3: at most one cycle is in flight, and a step that leaves a cycle in
\* flight (a request by the timer, a log line or a key press that arrives
\* meanwhile) starts no cycle, publishes nothing, runs no updateAttention and
\* leaves pollCount alone
C3_SingleCycleInFlight ==
    /\ [](Len(cycles) <= 1 /\ (pollInProgress <=> Len(cycles) = 1))
    /\ [][(pollInProgress /\ pollInProgress') =>
            /\ Len(cycles') = Len(cycles)
            /\ UNCHANGED <<pollsLeft, published, tabInfo, pollCount,
                           prevPromptState, prevProcessingState,
                           lastProcessingPoll, notificationWindowEnd>>]_vars

\* a log line raised the signal while the first cycle awaited its sub-queries
C3_Witness ==
    /\ pollCount = 0
    /\ cycles = <<SubQueries>>
    /\ notificationPending

\* C4: pollCount starts at 0 and changes only when a cycle resumes, then by
\* exactly 1: it counts the cycles started and no longer in flight
C4_PollCountCountsCycles ==
    /\ pollCount = 0
    /\ [](pollCount + Len(cycles) + pollsLeft = MaxPollCount)
    /\ [][IF Resumed THEN pollCount' = pollCount + 1
                     ELSE pollCount' = pollCount]_vars

\* three cycles done, a fourth in flight with a signal pending and a flag
\* cleared by a key press
C4_Witness ==
    /\ pollCount = 3
    /\ pollInProgress
    /\ notificationPending
    /\ published # EmptyMap
    /\ \E id \in DOMAIN published :
          published[id].kind = "tab" /\ published[id].hasAttention
                /\ visibleActions[id] \notin attentionTabs

\* C5: a call with frontmost = true, no signal pending and the snapshot of
\* the call before it leaves the flagged set as it was and adds 1 to pollCount
C5_Idempotent ==
    [][(/\ Resumed
        /\ pollCount > 0
        /\ ~notificationPending
        /\ tabInfo.frontmost
        /\ tabInfo' = tabInfo)
          => (attentionTabs' = attentionTabs /\ pollCount' = pollCount + 1)]_vars

\* a cycle about to resume after a frontmost call that left a tab flagged,
\* inside an open window, with no signal pending
C5_Witness ==
    /\ cycles = <<{}>>
    /\ pollCount > 0
    /\ pollCount <= notificationWindowEnd
    /\ ~notificationPending
    /\ tabInfo.frontmost
    /\ attentionTabs # {}

\* C6: a signal without project consumed at poll P sets the window's end to
\* P + 4; a hidden tab that was processing at the poll before and is not
\* processing at a poll inside the window is flagged after that poll; and a
\* poll whose pollCount is greater than the window's end adds no flag
C6_Windowing ==
    [][Resumed =>
        /\ notificationWindowEnd' =
              (IF notificationPending THEN pollCount + 4
               ELSE notificationWindowEnd)
        /\ \A t \in 1..Len(tabInfo'.names) :
              (/\ Hidden(tabInfo', t)
               /\ FallingProcessing(tabInfo', t)
               /\ pollCount <= notificationWindowEnd')
                 => t \in attentionTabs'
        /\ pollCount > notificationWindowEnd'
              => attentionTabs' \subseteq attentionTabs]_vars

\* the window opened at poll 0; tab 2 was processing at poll 1, not at poll
\* 2, and is flagged
C6_Witness ==
    /\ notificationWindowEnd = 4
    /\ pollCount = 3
    /\ 2 \in attentionTabs
    /\ 2 \in DOMAIN lastProcessingPoll
    /\ lastProcessingPoll[2] = 1
    /\ prevProcessingState[2] = FALSE

\* C7: counting the poll that consumes the signal (poll P, the window's end
\* being P + 4), the edge rules are off from the 5th call on (poll P + 4 and
\* later) when no further signal arrives
C7_WindowLastsFourPolls ==
    [][(/\ Resumed
        /\ ~notificationPending
        /\ notificationWindowEnd >= 0
        /\ pollCount >= notificationWindowEnd)
          => attentionTabs' \subseteq attentionTabs]_vars

\* the non-visible tabs of the snapshot whose display name contains project
Matching(info, project) ==
    {t \in 1..Len(info.names) :
        Hidden(info, t) /\ matchesProject(info.names[t], project)}

\* C8 as stated: when the consumed signal's project matches a hidden tab,
\* exactly the matching hidden tabs are added and the window is left alone
C8_ExactlyMatchingAdded ==
    [][(/\ Resumed
        /\ notificationPending
        /\ notificationProject # <<>>
        /\ Matching(tabInfo', notificationProject) # {})
          => /\ attentionTabs' \ attentionTabs =
                   Matching(tabInfo', notificationProject) \ attentionTabs
             /\ notificationWindowEnd' = notificationWindowEnd]_vars

\* C8 as amended: every matching hidden tab is flagged, the window is left
\* alone (the timing heuristic does not run), and any other tab added in that
\* cycle is a hidden tab with a prompt or processing edge inside a window an
\* earlier signal opened
C8_MatchingFlaggedTimingSkipped ==
    [][(/\ Resumed
        /\ notificationPending
        /\ notificationProject # <<>>
        /\ Matching(tabInfo', notificationProject) # {})
          => /\ Matching(tabInfo', notificationProject) \subseteq attentionTabs'
             /\ notificationWindowEnd' = notificationWindowEnd
             /\ \A t \in attentionTabs' \ attentionTabs :
                   \/ t \in Matching(tabInfo', notificationProject)
                   \/ /\ Hidden(tabInfo', t)
                      /\ 0 < pollCount
                      /\ pollCount <= notificationWindowEnd
                      /\ \/ FallingProcessing(tabInfo', t)
                         \/ RisingPrompt(tabInfo', t)]_vars

\* the project matched tab 2 and only it was flagged: tab 1, idle after
\* processing at the poll before, would have been flagged by the timing
\* heuristic, and no window was opened
C8_Witness ==
    /\ pollCount = 2
    /\ ~notificationPending
    /\ lastArrival = ProjectDeploy
    /\ notificationWindowEnd = -1
    /\ tabInfo.names = <<NameNotes, NameDeploy>>
    /\ ~tabInfo.frontmost
    /\ attentionTabs = {2}
    /\ 1 \in DOMAIN lastProcessingPoll
    /\ lastProcessingPoll[1] = 0

\* C9: with frontmost = false a call removes no flag, and its result is the
\* same whichever tab is the active one
C9_NoVisibleTabWhenBackgrounded ==
    [][(Resumed /\ ~tabInfo'.frontmost) =>
          /\ attentionTabs \subseteq attentionTabs'
          /\ \A a \in 0..Len(tabInfo'.names) :
                updateAttention(AttentionState,
                                [tabInfo' EXCEPT !.activeIndex = a]).attentionTabs
                    = attentionTabs']_vars

\* poll 1, iTerm2 in the background: the active tab 2 stopped processing
\* inside the window and is flagged
C9_Witness ==
    /\ pollCount = 2
    /\ notificationWindowEnd = 4
    /\ ~tabInfo.frontmost
    /\ tabInfo.activeIndex = 2
    /\ 2 \in attentionTabs

\* C10 as stated: the pending signal carries the project of the latest
\* matching line
C10_SecondReplacesFirst ==
    notificationPending => notificationProject = lastArrival

\* C10 as amended: while a signal stays pending its project does not change;
\* a further matching line is dropped
C10_SecondIsDropped ==
    [][(notificationPending /\ notificationPending')
          => notificationProject' = notificationProject]_vars

\* a second line with another project arrived and the first is still pending
C10_Witness ==
    /\ notificationPending
    /\ notificationProject = <<>>
    /\ lastArrival = ProjectDeploy

\* C11: a signal is pending only while a cycle is in flight, whose
\* updateAttention is the first to run after the signal was raised; that call
\* clears the signal and acts on it (it flags the tabs that match the project,
\* or opens the window); every call returns with no signal and no project
\* left, only a call clears a signal, and a call that finds no signal pending
\* acts on none
C11_SignalConsumedOnce ==
    /\ [](notificationPending => pollInProgress)
    /\ [](~notificationPending => notificationProject = <<>>)
    /\ [][/\ Resumed => (~notificationPending' /\ notificationProject' = <<>>)
          /\ (notificationPending /\ ~notificationPending') => Resumed
          /\ (Resumed /\ notificationPending) =>
                \/ notificationWindowEnd' = pollCount + 4
                \/ /\ Matching(tabInfo', notificationProject) # {}
                   /\ Matching(tabInfo', notificationProject)
                         \subseteq attentionTabs'
          /\ (Resumed /\ ~notificationPending) =>
                notificationWindowEnd' = notificationWindowEnd]_vars

\* a signal with a project was consumed by poll 1, where no tab matched: the
\* window opened at poll 1
C11_Witness ==
    /\ pollCount = 2
    /\ ~pollInProgress
    /\ ~notificationPending
    /\ lastArrival = ProjectDeploy
    /\ notificationWindowEnd = 5

\* the label the title of tab idx of the snapshot info gives
TitleProgram(info, idx) ==
    detectProgramFromName(parseTabName(info.names[idx]).process)

\* C12: a cycle whose sub-queries failed (no tab names, an empty process
\* table, frontmost false) still runs updateAttention (pollCount + 1),
\* releases the guard and publishes for every tracked button: the empty
\* marker when the tab list is empty, a record whose program comes from the
\* title when the process table is empty
C12_FailuresDegrade ==
    [][Resumed =>
        /\ pollCount' = pollCount + 1
        /\ ~pollInProgress'
        /\ \A id \in DOMAIN visibleActions :
              /\ id \in DOMAIN published'
              /\ published'[id].kind \in {"tab", "empty"}
              /\ tabInfo'.names = <<>> => published'[id].kind = "empty"
              /\ (lastPsOutput' = <<>> /\ published'[id].kind = "tab") =>
                    published'[id].program =
                        TitleProgram(tabInfo', visibleActions[id])]_vars

\* a cycle in which the three sub-queries failed has completed with a
\* button tracked
C12_Witness ==
    /\ pollCount = 2
    /\ ~pollInProgress
    /\ tabInfo = FailedTabInfo
    /\ lastPsOutput = <<>>
    /\ \E id \in DOMAIN visibleActions :
          id \in DOMAIN published /\ published[id].kind = "empty"

\* C13: a completed cycle publishes for every tracked button, and for no
\* other: the record of tab idx when 1 <= idx <= the number of tab names, the
\* empty marker when idx is beyond it; names is read at such an idx only, and
\* prompts and processing are at least as long as names
C13_PublishedPerTrackedIndex ==
    /\ [](/\ Len(tabInfo.names) <= Len(tabInfo.prompts)
          /\ Len(tabInfo.names) <= Len(tabInfo.processing)
          /\ \A id \in DOMAIN visibleActions : visibleActions[id] >= 1)
    /\ [][Resumed =>
          /\ DOMAIN published' = (DOMAIN published) \cup (DOMAIN visibleActions)
          /\ \A id \in DOMAIN published' :
                IF id \in DOMAIN visibleActions
                THEN IF visibleActions[id] <= Len(tabInfo'.names)
                     THEN /\ published'[id].kind = "tab"
                          /\ published'[id].tabName =
                                parseTabName(
                                    tabInfo'.names[visibleActions[id]]).displayName
                     ELSE published'[id] = [kind |-> "empty"]
                ELSE published'[id] = published[id]]_vars

\* two buttons tracked on tabs 1 and 2 and a snapshot of one tab: a record
\* for the first, the empty marker for the second
C13_Witness ==
    /\ DOMAIN visibleActions = {"b1", "b2"}
    /\ DOMAIN published = {"b1", "b2"}
    /\ Len(tabInfo.names) = 1
    /\ \E id \in DOMAIN visibleActions :
          visibleActions[id] = 1 /\ published[id].kind = "tab"
    /\ \E id \in DOMAIN visibleActions :
          visibleActions[id] = 2 /\ published[id].kind = "empty"

\* C17: a button registered after its setSettings call (one that appeared
\* with no stored tabIndex) gets an index no other tracked button holds
C17_AutoIndexDistinct ==
    [][\A id \in (DOMAIN appearing) \ (DOMAIN appearing') :
          \A other \in (DOMAIN visibleActions) \ {id} :
              visibleActions[other] # visibleActions'[id]]_vars

\* C14: the names, prompts, processing and ttys of every snapshot have the
\* same length
C14_SequencesAligned ==
    /\ Len(tabInfo.prompts) = Len(tabInfo.names)
    /\ Len(tabInfo.processing) = Len(tabInfo.names)
    /\ Len(tabInfo.ttys) = Len(tabInfo.names)

\* the label the foreground processes of t1 give in each process table, ""
\* when no rule matches them or t1 has none
ExpectedByProcess(ps) ==
    CASE ps = PsTable -> "vim"
      [] ps = PsAgent -> "claude"
      [] ps = PsBoth -> "claude"
      [] ps = PsCodex -> "codex"
      [] ps = PsSsh -> "ssh"
      [] OTHER -> ""

\* the label each title gives
ExpectedByTitle(name) ==
    CASE name = NameDeploy -> "shell"
      [] name = NameNotes -> "vim"
      [] OTHER -> "other"

\* C15: the program published for tab 1 is the first of claude, codex, ssh,
\* vim that the foreground command lines of its tty give evidence of (an
\* agent run by an interpreter is claude; claude wins over codex, codex over
\* ssh, ssh over vim); with no such evidence or no foreground process it is
\* the label of the title, other for a title no rule knows
C15_FirstMatchWins ==
    [][Resumed =>
        \A id \in DOMAIN visibleActions :
            published'[id].kind = "tab" =>
                published'[id].program =
                    (IF ExpectedByProcess(lastPsOutput') # ""
                     THEN ExpectedByProcess(lastPsOutput')
                     ELSE ExpectedByTitle(
                              tabInfo'.names[visibleActions[id]]))]_vars

\* the tab titled as a shell with codex and claude in its foreground is
\* published as claude
C15_Witness ==
    /\ lastPsOutput = PsBoth
    /\ tabInfo.names = <<NameDeploy>>
    /\ "b1" \in DOMAIN published
    /\ published["b1"].kind = "tab"
    /\ published["b1"].program = "claude"

\* the record published for a tracked tab says whether the tab is the
\* snapshot's active one and whether the cycle's updateAttention left it
\* flagged
ReflectsCycle(id) ==
    /\ published'[id].isActive = (visibleActions[id] = tabInfo'.activeIndex)
    /\ published'[id].hasAttention = (visibleActions[id] \in attentionTabs')

\* C16 as stated: the record reflects the cycle, and a cycle with frontmost =
\* true, no signal pending and nothing flagged before it publishes the active
\* tab as active and no tab with attention
C16_NothingFlaggedNothingShown ==
    [][Resumed =>
        \A id \in DOMAIN visibleActions :
            published'[id].kind = "tab" =>
                /\ ReflectsCycle(id)
                /\ (/\ tabInfo'.frontmost
                    /\ ~notificationPending
                    /\ attentionTabs = {}) =>
                      ~published'[id].hasAttention]_vars

\* C16 as amended: the same, for a cycle outside every detection window
\* (pollCount > notificationWindowEnd)
C16_PublishedReflectsCycle ==
    [][Resumed =>
        \A id \in DOMAIN visibleActions :
            published'[id].kind = "tab" =>
                /\ ReflectsCycle(id)
                /\ (/\ tabInfo'.frontmost
                    /\ ~notificationPending
                    /\ attentionTabs = {}
                    /\ pollCount > notificationWindowEnd) =>
                      /\ ~published'[id].hasAttention
                      /\ visibleActions[id] = tabInfo'.activeIndex
                            => published'[id].isActive]_vars

\* poll 1 flagged tab 1 while tab 2 was the active one: the button of tab 1
\* shows attention and is not active
C16_Witness ==
    /\ pollCount = 2
    /\ ~pollInProgress
    /\ tabInfo.activeIndex = 2
    /\ attentionTabs = {1}
    /\ "b1" \in DOMAIN visibleActions
    /\ published["b1"].kind = "tab"
    /\ published["b1"].hasAttention
    /\ ~published["b1"].isActive

\* the button id shows attention for a tab that is no longer flagged: a key
\* press on it cleared the flag after the last publication
Pressed(id) ==
    /\ id \in DOMAIN visibleActions
    /\ id \in DOMAIN published
    /\ published[id].kind = "tab"
    /\ published[id].hasAttention
    /\ visibleActions[id] \notin attentionTabs

\* C18: the next record published for a button after a key press on it
\* cleared its tab's flag has hasAttention = false
C18_KeyPressClearsHighlight ==
    [][Resumed =>
        \A id \in DOMAIN visibleActions :
            (Pressed(id) /\ published'[id].kind = "tab")
                => ~published'[id].hasAttention]_vars

\* C19 as stated: outside the step in which updateAttention runs, no field
\* of the attention state changes
C19_OnlyUpdateAttentionWrites ==
    [][~Resumed => UNCHANGED attentionVars]_vars

\* C19: outside the step in which updateAttention runs, pollCount, the
\* previous prompt and processing states, lastProcessingPoll and
\* notificationWindowEnd do not change, and the flagged set changes only
\* by losing the tab index of a tracked button (its key press)
C19_OnlyKeyPressBesidesCycle ==
    [][~Resumed =>
        /\ UNCHANGED <<pollCount, prevPromptState, lastProcessingPoll,
                       prevProcessingState, notificationWindowEnd>>
        /\ attentionTabs' # attentionTabs =>
              /\ visibleActions' = visibleActions
              /\ \E id \in DOMAIN visibleActions :
                    attentionTabs' = attentionTabs \ {visibleActions[id]}]_vars

\* a key press took the flag of a tab that the second cycle, the first
\* that can flag, had set and published
C19_Witness ==
    /\ pollCount = 2
    /\ \E id \in DOMAIN visibleActions : Pressed(id)

C21_JoinThenUpdateThenPublish ==
    [][/\ Resumed =>
            /\ \E c \in 1..Len(cycles) :
                  /\ cycles[c] = {}
                  /\ cycles' = SubSeq(cycles, 1, c - 1)
                                   \o SubSeq(cycles, c + 1, Len(cycles))
            /\ pollCount' = pollCount + 1
            /\ \A id \in DOMAIN visibleActions :
                  published'[id] =
                      Rendered(tabInfo', attentionTabs',
                               matchTtyPrograms(tabInfo'.ttys, lastPsOutput'),
                               visibleActions[id])
       /\ published' # published => Resumed]_vars

\* a first cycle has published its records and a second one is waiting with
\* some of its sub-queries settled and some not
C21_Witness ==
    /\ pollCount = 1
    /\ DOMAIN published # {}
    /\ Len(cycles) = 1
    /\ cycles[1] # {}
    /\ cycles[1] # SubQueries

\* C22 as stated: in every poll inside the window, the first of the session
\* included, a hidden tab whose prompt value rose or whose processing value
\* fell against the recorded values is flagged after the poll
C22_EdgesFlagInEveryWindowPoll ==
    [][Resumed =>
        \A t \in 1..Len(tabInfo'.names) :
            (/\ Hidden(tabInfo', t)
             /\ RisingPrompt(tabInfo', t) \/ FallingProcessing(tabInfo', t)
             /\ pollCount <= notificationWindowEnd')
               => t \in attentionTabs']_vars

\* C22: in every poll but the first (pollCount > 0) that is inside the
\* window, a hidden tab whose prompt value rose or whose processing value
\* fell against the values the previous poll recorded is flagged after the
\* poll
C22_EdgesFlagAfterFirstPoll ==
    [][Resumed =>
        \A t \in 1..Len(tabInfo'.names) :
            (/\ Hidden(tabInfo', t)
             /\ RisingPrompt(tabInfo', t) \/ FallingProcessing(tabInfo', t)
             /\ pollCount > 0
             /\ pollCount <= notificationWindowEnd')
               => t \in attentionTabs']_vars

\* tab 1, never seen processing, is flagged and at its prompt: only the
\* rule of the prompt transition can have flagged it
C22_Witness ==
    /\ 1 \in attentionTabs
    /\ 1 \notin DOMAIN lastProcessingPoll
    /\ MapGet(prevPromptState, 1, FALSE)

\* the hidden tabs of the snapshot info that are neither processing nor at
\* a prompt and were seen processing at most 3 polls before this one
RecentlyStopped(info) ==
    {t \in 1..Len(info.names) :
        /\ Hidden(info, t)
        /\ ~BoolAt(info.processing, t - 1)
        /\ ~BoolAt(info.prompts, t - 1)
        /\ t \in DOMAIN lastProcessingPoll
        /\ pollCount - lastProcessingPoll[t] <= 3}

\* the consumed signal has no project, or one that matches no hidden tab
TimingApplies(info) ==
    /\ notificationPending
    /\ \/ notificationProject = <<>>
       \/ Matching(info, notificationProject) = {}

\* C23 as stated: a call that consumes a signal with no hint, or with a hint
\* that matches no hidden tab, sets the window's end to pollCount + 4 and
\* adds exactly the recently stopped hidden tabs
C23_ExactlyRecentlyStoppedAdded ==
    [][(Resumed /\ TimingApplies(tabInfo'))
          => /\ notificationWindowEnd' = pollCount + 4
             /\ attentionTabs' \ attentionTabs =
                   RecentlyStopped(tabInfo') \ attentionTabs]_vars

\* C23 as amended: such a call sets the window's end to pollCount + 4 and
\* flags every recently stopped hidden tab; any other tab it adds is a
\* hidden tab with a prompt or processing edge, in a poll after the first
C23_RecentlyStoppedFlagged ==
    [][(Resumed /\ TimingApplies(tabInfo'))
          => /\ notificationWindowEnd' = pollCount + 4
             /\ RecentlyStopped(tabInfo') \subseteq attentionTabs'
             /\ \A t \in attentionTabs' \ attentionTabs :
                   \/ t \in RecentlyStopped(tabInfo')
                   \/ /\ Hidden(tabInfo', t)
                      /\ 0 < pollCount
                      /\ \/ FallingProcessing(tabInfo', t)
                         \/ RisingPrompt(tabInfo', t)]_vars

\* a signal whose project matched no hidden tab (the matching tab 2 was the
\* visible one) was consumed at poll 3, and tab 1, last processing at poll 0
\* and idle since, is flagged
C23_Witness ==
    /\ pollCount = 4
    /\ notificationWindowEnd = 7
    /\ lastArrival = ProjectDeploy
    /\ tabInfo.frontmost
    /\ tabInfo.activeIndex = 2
    /\ 1 \in attentionTabs
    /\ 1 \in DOMAIN lastProcessingPoll
    /\ lastProcessingPoll[1] = 0
    /\ ~MapGet(prevPromptState, 1, FALSE)

\* C24: the step in which a log line raises the signal leaves a cycle in
\* flight, starting one when none was (and nothing when one was); the signal
\* is cleared only by a resuming cycle's updateAttention, and every raised
\* signal is eventually cleared
C24_EarlyWakeUp ==
    /\ [][(~notificationPending /\ notificationPending') =>
             /\ pollInProgress'
             /\ IF pollInProgress
                THEN UNCHANGED pollVars
                ELSE cycles' = Append(cycles, SubQueries)]_vars
    /\ [][(notificationPending /\ ~notificationPending') => Resumed]_vars
    /\ (notificationPending ~> ~notificationPending)

\* a line with a project arrived while the first cycle was in flight, and
\* that cycle consumed the signal
C24_Witness ==
    /\ pollCount = 1
    /\ pollsLeft = ProjectPollCount - 1
    /\ lastArrival = ProjectDeploy
    /\ ~notificationPending
    /\ ~pollInProgress

\* the `log stream` children that were spawned and neither killed nor gone
Alive == {child \in DOMAIN logStreamChildren :
             logStreamChildren[child] = "running"}

\* C25: at most one log stream child is alive, and none when no button is
\* tracked
C25_OneSubscriptionAlive ==
    /\ Cardinality(Alive) <= 1
    /\ DOMAIN visibleActions = {} => Alive = {}

\* C27: when no onWillAppear is suspended, the timer is armed exactly when a
\* button is tracked; a button that is registered while the timer is armed
\* starts nothing again (no timer, no immediate poll, no log stream), and
\* the step that removes the last tracked button disarms the timer
C27_TimerArmedIffTracked ==
    /\ [](DOMAIN appearing = {} => (pollTimer <=> DOMAIN visibleActions # {}))
    /\ [][(pollTimer /\ DOMAIN visibleActions' # DOMAIN visibleActions
              /\ DOMAIN visibleActions \subseteq DOMAIN visibleActions')
             => UNCHANGED <<pollTimer, pollVars, streamVars>>]_vars
    /\ [][(DOMAIN visibleActions # {} /\ DOMAIN visibleActions' = {})
             => ~pollTimer']_vars

\* both buttons are tracked with the timer armed, no poll is in flight and
\* one cycle has completed: the second registration started no poll
C27_Witness ==
    /\ DOMAIN visibleActions = Deck
    /\ DOMAIN appearing = {}
    /\ pollTimer
    /\ ~pollInProgress
    /\ pollsLeft = ButtonPollCount - 1

\* C26: a step takes a tab out of the flagged set only if it is the visible
\* tab of the poll that resumes in that step, or the tab of a tracked button
\* in a step that is no poll (its key press); so a flagged tab that the
\* snapshot no longer lists stays flagged
C26_FlagsSticky ==
    [][attentionTabs \ attentionTabs' \subseteq
          (IF Resumed
           THEN {VisibleTab(tabInfo')}
           ELSE {visibleActions[id] : id \in DOMAIN visibleActions})]_vars

\* tab 2 is flagged after a second poll whose snapshot lists fewer than two
\* tabs
C26_Witness ==
    /\ pollCount = 2
    /\ 2 \in attentionTabs
    /\ Len(tabInfo.names) < 2

\* the snapshot info is what getTabInfo gives when the terminal query fails
\* or when the terminal has no window
ZeroTabs(info) ==
    [info EXCEPT !.frontmost = FALSE]
        \in {getTabInfo([ok |-> FALSE]),
             getTabInfo([ok |-> TRUE, term |-> NoWindow])}

\* C28: a poll whose terminal has no window, or whose terminal query failed,
\* leaves the flagged set, the previous prompt and processing values and
\* lastProcessingPoll unchanged, adds one to pollCount and leaves no signal
\* pending
C28_EmptyPollKeepsState ==
    [][(Resumed /\ ZeroTabs(tabInfo'))
          => /\ UNCHANGED <<attentionTabs, prevPromptState,
                            prevProcessingState, lastProcessingPoll>>
             /\ pollCount' = pollCount + 1
             /\ ~notificationPending']_vars

=============================================================================
